---- MODULE Spec2Model ----
(***************************************************************************)
(* Model of Assignments/02-Missile_Geometry_101/run_project.py: the batch  *)
(* pipeline that enriches a list of threat records stage by stage          *)
(* (distance/bearing, trajectory, country intersection, base proximity,    *)
(* damage zones) and reduces the damage records to a per-country table.    *)
(*                                                                         *)
(* Geometry.  The model restricts the sphere to the meridian through the   *)
(* base (longitude BASE_LON).  A point is its signed offset north of the   *)
(* base along that meridian, an integer number of units of 1/300 km, so    *)
(* that speed_kmh * duration_min / 60 km (= speed * duration * 5 units)    *)
(* and 0.01 km (= 3 units) are both exact.  Bearings are 0 (north) and     *)
(* 180 (south).  A country polygon and a trajectory line meet the meridian *)
(* in a closed interval [lo, hi].                                          *)
(***************************************************************************)
EXTENDS Integers, Sequences, FiniteSets, TLC

\* ------------------------------------------------------------------ units
UnitsPerKm == 3 * 100
CentiKm == UnitsPerKm \div 100

\* ---------------------------------------------------------- configuration
\* The base is the origin of the meridian coordinate.
BASE_LAT == 0
BASE_PROXIMITY_KM == 500
OCEAN == "Ocean (no land)"
KnownTypes == {"alien", "orbital", "airborne", "kaiju"}
THREAT_STYLES ==
  [ty \in KnownTypes |->
     CASE ty = "alien"    -> [color |-> "#00FF00", buffer_km |-> 150, severity |-> "High"]
       [] ty = "orbital"  -> [color |-> "#9400D3", buffer_km |-> 300, severity |-> "Critical"]
       [] ty = "airborne" -> [color |-> "#FF8C00", buffer_km |-> 100, severity |-> "Moderate"]
       [] ty = "kaiju"    -> [color |-> "#FF0000", buffer_km |-> 200, severity |-> "Severe"]]
STEP_MIN == 2

\* ------------------------------------------------------------------ bounds
MaxThreats == 2

\* ------------------------------------------------------- generic helpers
Range(s) == {s[k] : k \in DOMAIN s}
Last(s) == s[Len(s)]
Abs(x) == IF x < 0 THEN -x ELSE x
Min(a, b) == IF a < b THEN a ELSE b
Max(a, b) == IF a > b THEN a ELSE b
SeqsUpTo(S, n) == UNION {[1..k -> S] : k \in 0..n}
Perms(n) == {p \in [1..n -> 1..n] : \A a, b \in 1..n : a # b => p[a] # p[b]}
Permuted(s, p) == [k \in 1..Len(s) |-> s[p[k]]]

\* Python's str order on the strings that occur (upper case before lower).
StrOrder ==
  <<"A", "B", "C", "Ocean (no land)", "T1", "T2", "T3",
    "airborne", "alien", "drone", "kaiju", "orbital">>
StrRank(s) == CHOOSE k \in DOMAIN StrOrder : StrOrder[k] = s
\* sorted(S) for a set of strings
RECURSIVE SortedStrs(_)
SortedStrs(S) ==
  IF S = {} THEN <<>>
  ELSE LET m == CHOOSE x \in S : \A y \in S : StrRank(x) <= StrRank(y)
       IN <<m>> \o SortedStrs(S \ {m})

\* round(x, 2) of a non-negative length: the nearest multiple of 0.01 km.
\* A length in units of 1/300 km is never half way between two of them.
Round2(u) ==
  LET r == u % CentiKm
  IN IF 2 * r > CentiKm THEN u + (CentiKm - r) ELSE u - r

\* ------------------------------------------------- wdo.wdo_geo (imported)
\* Great-circle distance of two points of the meridian, in units.
haversine_km(a, b) == Abs(a - b)

\* Forward azimuth from a to b; 0 when a = b.
initial_bearing_deg(a, b) == IF b < a THEN 180 ELSE 0

\* The point reached from origin after dist units along bearing.
destination_point(origin, bearing, dist) ==
  IF bearing = 180 THEN origin - dist ELSE origin + dist

\* Length travelled after t minutes at speed km/h, in units (exact).
TravelUnits(speed_kmh, t_min) == (speed_kmh * t_min * UnitsPerKm) \div 60

\* Elapsed minutes of the samples: the multiples of step up to the duration,
\* and the duration itself when it is not one of them.
SampleTimes(duration_min, step_min) ==
  LET n == duration_min \div step_min
      mult == [k \in 1..(n + 1) |-> (k - 1) * step_min]
  IN IF n * step_min = duration_min THEN mult ELSE Append(mult, duration_min)

trajectory_points(origin, bearing, speed_kmh, duration_min, step_min) ==
  LET ts == SampleTimes(duration_min, step_min)
  IN [k \in 1..Len(ts) |->
        destination_point(origin, bearing, TravelUnits(speed_kmh, ts[k]))]

\* ------------------------------------------------ shapely / geopandas
\* LineString(coords): fewer than two coordinates raise.
LineStringOk(pts) == Len(pts) >= 2
LineString(pts) ==
  [lo |-> CHOOSE x \in Range(pts) : \A y \in Range(pts) : x <= y,
   hi |-> CHOOSE x \in Range(pts) : \A y \in Range(pts) : x >= y]
\* geometry.intersects(other): the two share at least one point.
Intersects(g, h) == g.lo <= h.hi /\ h.lo <= g.hi

\* Scale of EPSG:3857 at a point of the meridian, per mille: a length of
\* m projected metres is m * cos(latitude) metres on the ground.  The
\* latitude bands are those of the base's meridian (base at 32.8 N).
MercatorCosPermille(p) ==
  CASE p < -1000 * UnitsPerKm -> 950
    [] p >= -1000 * UnitsPerKm /\ p < 0 -> 880
    [] p >= 0 /\ p < 1000 * UnitsPerKm -> 800
    [] OTHER -> 700
\* to_crs(3857), buffer(buffer_km * 1000), to_crs(4326) of Point(dest).
BufferGeom(dest, buffer_km) ==
  LET ground == (buffer_km * UnitsPerKm * MercatorCosPermille(dest)) \div 1000
  IN [lo |-> dest - ground, hi |-> dest + ground]

\* ------------------------------------------------------------------ inputs
\* threats.json records (origin_lat in units north of the base).
Raw(id, ty, origin, bearing, speed, duration) ==
  [id |-> id, type |-> ty, origin_lat |-> origin, bearing_deg |-> bearing,
   speed_kmh |-> speed, duration_min |-> duration]
ThreatCatalog ==
  { Raw("T1", "alien",    152001, 180, 100, 4),
    Raw("T2", "orbital",  152001, 180, 100, 4),
    Raw("T2", "kaiju",    150500, 180, 100, 3),
    Raw("T1", "airborne", 150500, 180, 100, 3),
    Raw("T2", "airborne", -600000, 180, 600, 6),
    Raw("T1", "orbital",  -600000, 180, 600, 6),
    Raw("T1", "alien",    150000, 0, 600, 2),
    Raw("T2", "alien",    150003, 0, 600, 2),
    Raw("T1", "kaiju",    -30000, 0, 600, 6),
    Raw("T3", "orbital",  150500, 180, 100, 3),
    Raw("T3", "alien",    150500, 180, 100, 3),
    Raw("T2", "drone",    150500, 180, 100, 3),
    Raw("T1", "kaiju",    150500, 180, 100, 0) }

\* world_borders.geojson rows.
Row(name, lo, hi) == [COUNTRY |-> name, geometry |-> [lo |-> lo, hi |-> hi]]
Worlds ==
  { <<>>,
    << Row("A", 149000, 150800), Row("B", 100000, 149500) >>,
    << Row("B", 100000, 149500), Row("A", 149000, 150800) >>,
    << Row("A", 149000, 150800), Row("A", 150400, 152500) >>,
    << Row("C", -900000, -850000) >>,
    << Row("A", 149000, 150800), Row("B", 100000, 112000),
       Row("C", -660000, -650000) >> }

\* ------------------------------------------------------------------- state
VARIABLES
  threats_raw,      \* the loaded threat records
  world,            \* the loaded polygon dataset (world_4326)
  threats,          \* the enriched threat records
  all_intersected_countries,
  endpoint_data,    \* rows of endpoints_gdf
  buffers_4326,     \* rows of the damage-zone buffers
  damage_records,
  country_summary,
  styleLookups,     \* every style lookup made: stage, type, outcome
  report,           \* the per-threat entries of the final summary
  pc,               \* the statement the script is at
  i,                \* index of the running for loop
  error             \* the exception that ended the script, if any
vars == <<threats_raw, world, threats, all_intersected_countries, endpoint_data,
          buffers_4326, damage_records, country_summary, styleLookups, report,
          pc, i, error>>

Init ==
  /\ threats_raw \in SeqsUpTo(ThreatCatalog, MaxThreats)
  /\ world \in Worlds
  /\ threats = <<>>
  /\ all_intersected_countries = {}
  /\ endpoint_data = <<>>
  /\ buffers_4326 = <<>>
  /\ damage_records = <<>>
  /\ country_summary = <<>>
  /\ styleLookups = {}
  /\ report = <<>>
  /\ pc = "m2_loop"
  /\ i = 1
  /\ error = "none"

\* A dict's keys are modelled by the set has; a key not in has is absent and
\* its field holds a placeholder.
Set(t, key, val) == [t EXCEPT ![key] = val, !.has = @ \cup {key}]
Has(t, key) == key \in t.has

Goto(label) == pc' = label /\ i' = 1
Crash(exc) == pc' = "crashed" /\ error' = exc /\ i' = i

\* -------------------------------------------- milestone 2: distance, bearing
NewThreat(t) ==
  [id |-> t.id, type |-> t.type, origin_lat |-> t.origin_lat,
   bearing_deg |-> t.bearing_deg, speed_kmh |-> t.speed_kmh,
   duration_min |-> t.duration_min,
   dist_to_base_km |-> Round2(haversine_km(t.origin_lat, BASE_LAT)),
   bearing_to_base_deg |-> initial_bearing_deg(t.origin_lat, BASE_LAT),
   trajectory_pts |-> <<>>, total_distance_km |-> 0, dest_lat |-> 0,
   trajectory_line |-> [lo |-> 0, hi |-> 0], num_points |-> 0,
   intersected_countries |-> <<>>, min_dist_to_base_km |-> [inf |-> TRUE, d |-> 0],
   passes_near_base |-> FALSE, damage_zone_countries |-> <<>>,
   has |-> {"id", "type", "origin_lat", "bearing_deg", "speed_kmh",
            "duration_min", "dist_to_base_km", "bearing_to_base_deg"}]

\* for t in threats_raw: ... threats.append(threat)
M2Threat ==
  /\ pc = "m2_loop" /\ i <= Len(threats_raw)
  /\ threats' = Append(threats, NewThreat(threats_raw[i]))
  /\ i' = i + 1
  /\ UNCHANGED <<report, threats_raw, world, all_intersected_countries, endpoint_data,
                 buffers_4326, damage_records, country_summary, styleLookups,
                 pc, error>>

\* closest = min(threats, ...); farthest = max(threats, ...)
M2Closest ==
  /\ pc = "m2_loop" /\ i > Len(threats_raw)
  /\ threats # <<>>
  /\ Goto("m2_map")
  /\ UNCHANGED <<report, threats_raw, world, threats, all_intersected_countries,
                 endpoint_data, buffers_4326, damage_records, country_summary,
                 styleLookups, error>>

\* min() of an empty list raises ValueError.
M2ClosestFail ==
  /\ pc = "m2_loop" /\ i > Len(threats_raw)
  /\ threats = <<>>
  /\ Crash("ValueError: min() arg is an empty sequence")
  /\ UNCHANGED <<report, threats_raw, world, threats, all_intersected_countries,
                 endpoint_data, buffers_4326, damage_records, country_summary,
                 styleLookups>>

\* threat_styles.get(t['type'], {'color': 'gray'}) of add_threat_origins and
\* add_trajectories: an unknown type is drawn with the fallback colour.
GetStyleOutcome(ty) == IF ty \in DOMAIN THREAT_STYLES THEN "style" ELSE "fallback"
MapLookups(stage) ==
  {[stage |-> stage, type |-> threats[k].type,
    outcome |-> GetStyleOutcome(threats[k].type)] : k \in DOMAIN threats}

\* add_threat_origins(m2, threats, THREAT_STYLES)
M2Map ==
  /\ pc = "m2_map"
  /\ styleLookups' = styleLookups \cup MapLookups("m2_map")
  /\ Goto("m3_loop")
  /\ UNCHANGED <<report, threats_raw, world, threats, all_intersected_countries,
                 endpoint_data, buffers_4326, damage_records, country_summary,
                 error>>

\* ------------------------------------------------- milestone 3: trajectories
\* The body of the loop up to the destination point (lines 299-318).
WithTrajectory(t) ==
  LET pts == trajectory_points(t.origin_lat, t.bearing_deg, t.speed_kmh,
                               t.duration_min, STEP_MIN)
      total == Round2(TravelUnits(t.speed_kmh, t.duration_min))
      dest == destination_point(t.origin_lat, t.bearing_deg, total)
  IN Set(Set(Set(t, "trajectory_pts", pts), "total_distance_km", total),
         "dest_lat", dest)

\* The rest of the body: the LineString and the number of points.
WithLine(t) ==
  Set(Set(t, "trajectory_line", LineString(t.trajectory_pts)),
      "num_points", Len(t.trajectory_pts))

M3Trajectory ==
  /\ pc = "m3_loop" /\ i <= Len(threats)
  /\ LineStringOk(WithTrajectory(threats[i]).trajectory_pts)
  /\ threats' = [threats EXCEPT ![i] = WithLine(WithTrajectory(threats[i]))]
  /\ i' = i + 1
  /\ UNCHANGED <<report, threats_raw, world, all_intersected_countries, endpoint_data,
                 buffers_4326, damage_records, country_summary, styleLookups,
                 pc, error>>

\* LineString of a single sample raises; the fields set before it stay set.
M3LineFail ==
  /\ pc = "m3_loop" /\ i <= Len(threats)
  /\ ~LineStringOk(WithTrajectory(threats[i]).trajectory_pts)
  /\ threats' = [threats EXCEPT ![i] = WithTrajectory(threats[i])]
  /\ Crash("LineString: fewer than 2 coordinates")
  /\ UNCHANGED <<report, threats_raw, world, all_intersected_countries, endpoint_data,
                 buffers_4326, damage_records, country_summary, styleLookups>>

\* add_threat_origins(m3, ...); add_trajectories(m3, ...)
M3Map ==
  /\ pc = "m3_loop" /\ i > Len(threats)
  /\ styleLookups' = styleLookups \cup MapLookups("m3_map")
  /\ Goto("m4_intersect")
  /\ UNCHANGED <<report, threats_raw, world, threats, all_intersected_countries,
                 endpoint_data, buffers_4326, damage_records, country_summary,
                 error>>

\* ----------------------------------------- milestone 4: intersections, base
\* list(w[w.geometry.intersects(g)]['COUNTRY'].values): the names of the
\* intersecting rows, in row order, one per row.
RECURSIVE IntersectingNames(_, _)
IntersectingNames(w, g) ==
  IF w = <<>> THEN <<>>
  ELSE (IF Intersects(Head(w).geometry, g) THEN <<Head(w).COUNTRY>> ELSE <<>>)
       \o IntersectingNames(Tail(w), g)

\* The body of the loop on one threat: t['intersected_countries'] = ...
WithIntersected(t, w) ==
  Set(t, "intersected_countries", IntersectingNames(w, t.trajectory_line))

M4Intersect ==
  /\ pc = "m4_intersect" /\ i <= Len(threats)
  /\ LET country_names == IntersectingNames(world, threats[i].trajectory_line)
     IN /\ threats' = [threats EXCEPT ![i] = WithIntersected(@, world)]
        /\ all_intersected_countries' =
             all_intersected_countries \cup Range(country_names)
  /\ i' = i + 1
  /\ UNCHANGED <<report, threats_raw, world, endpoint_data, buffers_4326,
                 damage_records, country_summary, styleLookups, pc, error>>

M4IntersectDone ==
  /\ pc = "m4_intersect" /\ i > Len(threats)
  /\ Goto("m4_proximity")
  /\ UNCHANGED <<report, threats_raw, world, threats, all_intersected_countries,
                 endpoint_data, buffers_4326, damage_records, country_summary,
                 styleLookups, error>>

\* min_dist = float('inf'); for lat, lon in pts: d = ...; if d < min_dist: ...
\* inf is [inf |-> TRUE]; a finite distance is [inf |-> FALSE, d |-> units].
INF == [inf |-> TRUE, d |-> 0]
Fin(d) == [inf |-> FALSE, d |-> d]
Less(d, m) == m.inf \/ d < m.d
RECURSIVE ScanMin(_, _)
ScanMin(pts, min_dist) ==
  IF pts = <<>> THEN min_dist
  ELSE LET d == haversine_km(Head(pts), BASE_LAT)
       IN ScanMin(Tail(pts), IF Less(d, min_dist) THEN Fin(d) ELSE min_dist)
\* Variant: the scan starts at the second sample.
MinDistSkipFirst(pts) == ScanMin(Tail(pts), INF)
MinDist(pts) == ScanMin(pts, INF)

\* round(min_dist, 2): round(inf, 2) is inf.
RoundDist(m) == IF m.inf THEN m ELSE Fin(Round2(m.d))
\* Variant: the comparison points the other way.
WithinProximityFlipped(m) == ~m.inf /\ m.d >= BASE_PROXIMITY_KM * UnitsPerKm
\* min_dist <= BASE_PROXIMITY_KM
WithinProximity(m) == ~m.inf /\ m.d <= BASE_PROXIMITY_KM * UnitsPerKm

\* Variant: the analysis rebuilds the record's derived lists as it writes.
WithProximityReset(t) ==
  LET min_dist == MinDist(t.trajectory_pts)
  IN Set(Set(Set(t, "min_dist_to_base_km", RoundDist(min_dist)),
             "passes_near_base", WithinProximity(min_dist)),
         "intersected_countries", <<>>)
WithProximity(t) ==
  LET min_dist == MinDist(t.trajectory_pts)
  IN Set(Set(t, "min_dist_to_base_km", RoundDist(min_dist)),
         "passes_near_base", WithinProximity(min_dist))

M4Proximity ==
  /\ pc = "m4_proximity" /\ i <= Len(threats)
  /\ threats' = [threats EXCEPT ![i] = WithProximity(threats[i])]
  /\ i' = i + 1
  /\ UNCHANGED <<report, threats_raw, world, all_intersected_countries, endpoint_data,
                 buffers_4326, damage_records, country_summary, styleLookups,
                 pc, error>>

\* add_threat_origins(m4, ...); add_trajectories(m4, ...)
M4Map ==
  /\ pc = "m4_proximity" /\ i > Len(threats)
  /\ styleLookups' = styleLookups \cup MapLookups("m4_map")
  /\ Goto("m5_endpoints")
  /\ UNCHANGED <<report, threats_raw, world, threats, all_intersected_countries,
                 endpoint_data, buffers_4326, damage_records, country_summary,
                 error>>

\* ------------------------------------------------- milestone 5: damage zones
\* style = THREAT_STYLES[t['type']]; endpoint_data.append({...})
EndpointRow(t) ==
  LET style == THREAT_STYLES[t.type]
  IN [id |-> t.id, type |-> t.type, buffer_km |-> style.buffer_km,
      severity |-> style.severity, color |-> style.color,
      geometry |-> t.dest_lat]

M5Endpoint ==
  /\ pc = "m5_endpoints" /\ i <= Len(threats)
  /\ threats[i].type \in DOMAIN THREAT_STYLES
  /\ endpoint_data' = Append(endpoint_data, EndpointRow(threats[i]))
  /\ styleLookups' = styleLookups \cup
       {[stage |-> "m5_endpoints", type |-> threats[i].type, outcome |-> "style"]}
  /\ i' = i + 1
  /\ UNCHANGED <<report, threats_raw, world, threats, all_intersected_countries,
                 buffers_4326, damage_records, country_summary, pc, error>>

\* THREAT_STYLES[t['type']] of a type the table lacks raises KeyError.
M5EndpointFail ==
  /\ pc = "m5_endpoints" /\ i <= Len(threats)
  /\ threats[i].type \notin DOMAIN THREAT_STYLES
  /\ styleLookups' = styleLookups \cup
       {[stage |-> "m5_endpoints", type |-> threats[i].type, outcome |-> "KeyError"]}
  /\ Crash("KeyError: threat type")
  /\ UNCHANGED <<report, threats_raw, world, threats, all_intersected_countries,
                 endpoint_data, buffers_4326, damage_records, country_summary>>

\* endpoints_gdf.to_crs(3857), buffer, to_crs(4326): one buffer row per endpoint.
BufferRow(e) == [e EXCEPT !.geometry = BufferGeom(e.geometry, e.buffer_km)]

M5Buffers ==
  /\ pc = "m5_endpoints" /\ i > Len(threats)
  /\ buffers_4326' = [k \in 1..Len(endpoint_data) |-> BufferRow(endpoint_data[k])]
  /\ Goto("m5_damage")
  /\ UNCHANGED <<report, threats_raw, world, threats, all_intersected_countries,
                 endpoint_data, damage_records, country_summary, styleLookups,
                 error>>

\* for t in threats: if t['id'] == t_id: t['damage_zone_countries'] = ...; break
FirstWithId(ts, t_id) ==
  IF \E k \in DOMAIN ts : ts[k].id = t_id
  THEN CHOOSE k \in DOMAIN ts :
         ts[k].id = t_id /\ \A j \in 1..(k - 1) : ts[j].id # t_id
  ELSE 0
SetDamageZone(ts, t_id, names) ==
  LET k == FirstWithId(ts, t_id)
  IN IF k = 0 THEN ts
     ELSE [ts EXCEPT ![k] = Set(@, "damage_zone_countries", names)]

DamageRecord(country, buf_row) ==
  [country |-> country, threat_id |-> buf_row.id, threat_type |-> buf_row.type,
   severity |-> buf_row.severity, buffer_km |-> buf_row.buffer_km]
\* Variant: a zone without land emits nothing.
RowRecordsNoOcean(affected, buf_row) ==
  [k \in 1..Len(affected) |-> DamageRecord(affected[k], buf_row)]
\* One record per affected row, or the ocean record when there is none.
RowRecords(affected, buf_row) ==
  IF Len(affected) > 0
  THEN [k \in 1..Len(affected) |-> DamageRecord(affected[k], buf_row)]
  ELSE <<DamageRecord(OCEAN, buf_row)>>

M5Damage ==
  /\ pc = "m5_damage" /\ i <= Len(buffers_4326)
  /\ LET buf_row == buffers_4326[i]
         affected == IntersectingNames(world, buf_row.geometry)
     IN /\ threats' = SetDamageZone(threats, buf_row.id, affected)
        /\ damage_records' = damage_records \o RowRecords(affected, buf_row)
  /\ i' = i + 1
  /\ UNCHANGED <<report, threats_raw, world, all_intersected_countries, endpoint_data,
                 buffers_4326, country_summary, styleLookups, pc, error>>

\* Variant: Severe and High change places.
severity_order_swapped(s) ==
  CASE s = "Critical" -> 4 [] s = "Severe" -> 2 [] s = "High" -> 3
    [] s = "Moderate" -> 1 [] OTHER -> 0
\* severity_order.get(s, 0)
severity_order(s) ==
  CASE s = "Critical" -> 4 [] s = "Severe" -> 3 [] s = "High" -> 2
    [] s = "Moderate" -> 1 [] OTHER -> 0
\* max(values, key=...): the first of the values of greatest key.
RECURSIVE MaxFrom(_, _)
MaxFrom(best, rest) ==
  IF rest = <<>> THEN best
  ELSE MaxFrom(IF severity_order(Head(rest)) > severity_order(best)
               THEN Head(rest) ELSE best, Tail(rest))
\* Variant: the severity of the first record decides.
WorstSeverityFirst(severities) == Head(severities)
WorstSeverity(severities) == MaxFrom(Head(severities), Tail(severities))

\* rows[col].unique(), sorted
SortedUnique(rows, col) == SortedStrs({rows[k][col] : k \in DOMAIN rows})

\* The groups of the summary: sorted(damage_df['country'].unique())
SummaryCountries(records) == SortedUnique(records, "country")

SummaryRow(records, country) ==
  LET rows == SelectSeq(records, LAMBDA r : r.country = country)
  IN [Country |-> country,
      ThreatIDs |-> SortedUnique(rows, "threat_id"),
      ThreatTypes |-> SortedUnique(rows, "threat_type"),
      WorstSeverity |-> WorstSeverity([k \in 1..Len(rows) |-> rows[k].severity])]

CountrySummary(records) ==
  LET cs == SummaryCountries(records)
  IN [k \in 1..Len(cs) |-> SummaryRow(records, cs[k])]

\* damage_df = pd.DataFrame(damage_records); country_summary = [...]
\* (damage_records is never empty here: an empty threat list ended the
\* script at min(), and every buffer row appends at least one record.)
M5Summary ==
  /\ pc = "m5_damage" /\ i > Len(buffers_4326)
  /\ country_summary' = CountrySummary(damage_records)
  /\ Goto("m5_map")
  /\ UNCHANGED <<report, threats_raw, world, threats, all_intersected_countries,
                 endpoint_data, buffers_4326, damage_records, styleLookups,
                 error>>

\* add_trajectories(m5, ...); THREAT_STYLES[buf_row['type']] per buffer row;
\* add_threat_origins(m5, ...)
M5Map ==
  /\ pc = "m5_map"
  /\ styleLookups' = styleLookups \cup MapLookups("m5_map") \cup
       {[stage |-> "m5_buffers_layer", type |-> buffers_4326[k].type,
         outcome |-> "style"] : k \in DOMAIN buffers_4326}
  /\ Goto("report")
  /\ UNCHANGED <<report, threats_raw, world, threats, all_intersected_countries,
                 endpoint_data, buffers_4326, damage_records, country_summary,
                 error>>

\* ------------------------------------------------------------ final summary
\* dmg = t.get('damage_zone_countries', []); 'Ocean only' when it is empty
ReportEntry(t) ==
  LET dmg == IF Has(t, "damage_zone_countries") THEN t.damage_zone_countries
             ELSE <<>>
  IN [id |-> t.id,
      closest |-> t.min_dist_to_base_km,
      alert |-> t.passes_near_base,
      crossed |-> t.intersected_countries,
      damage_zone |-> IF dmg # <<>> THEN dmg ELSE <<"Ocean only">>]

FinalReport ==
  /\ pc = "report"
  /\ report' = [k \in 1..Len(threats) |-> ReportEntry(threats[k])]
  /\ Goto("done")
  /\ UNCHANGED <<threats_raw, world, threats, all_intersected_countries,
                 endpoint_data, buffers_4326, damage_records, country_summary,
                 styleLookups, error>>

\* ------------------------------------------- the stages as whole functions
\* The damage-zone buffer row the pipeline derives from one loaded record.
BufferOf(raw) == BufferRow(EndpointRow(WithTrajectory(NewThreat(raw))))

\* The damage records of the whole loop over the buffer rows, in order.
RECURSIVE DamageRecordsOf(_, _)
DamageRecordsOf(bufs, w) ==
  IF bufs = <<>> THEN <<>>
  ELSE RowRecords(IntersectingNames(w, Head(bufs).geometry), Head(bufs))
       \o DamageRecordsOf(Tail(bufs), w)

Next ==
  \/ M2Threat \/ M2Closest \/ M2ClosestFail \/ M2Map
  \/ M3Trajectory \/ M3LineFail \/ M3Map
  \/ M4Intersect \/ M4IntersectDone \/ M4Proximity \/ M4Map
  \/ M5Endpoint \/ M5EndpointFail \/ M5Buffers \/ M5Damage \/ M5Summary
  \/ M5Map \/ FinalReport

Spec == Init /\ [][Next]_vars

\* ================================================================== claims
DamageDone ==
  \/ pc = "m5_damage" /\ i > Len(buffers_4326)
  \/ pc \in {"m5_map", "report", "done"}
\* The dataset rows the damage zone of threat k intersects.
Hits(k) ==
  {j \in DOMAIN world : Intersects(world[j].geometry, buffers_4326[k].geometry)}
\* The ocean record of a threat.
OceanRecordOf(t) ==
  [country |-> OCEAN, threat_id |-> t.id, threat_type |-> t.type,
   severity |-> THREAT_STYLES[t.type].severity,
   buffer_km |-> THREAT_STYLES[t.type].buffer_km]
NoDup(q) == \A a, b \in DOMAIN q : a # b => q[a] # q[b]

\* C1: after the damage-zone stage, each threat whose buffer intersects no
\* country has exactly one ocean record carrying its id, type, severity and
\* radius (as many equal ocean records as there are such threats with that
\* id and type), no ocean record belongs to a threat whose buffer intersects
\* a country, and every threat has at least one damage record.
C1_OceanSentinel ==
  DamageDone =>
    /\ \A k \in DOMAIN threats :
         /\ \E n \in DOMAIN damage_records :
              damage_records[n].threat_id = threats[k].id
         /\ Cardinality({n \in DOMAIN damage_records :
                           damage_records[n] = OceanRecordOf(threats[k])})
            = Cardinality({j \in DOMAIN threats :
                             /\ threats[j].id = threats[k].id
                             /\ threats[j].type = threats[k].type
                             /\ Hits(j) = {}})
    /\ \A n \in DOMAIN damage_records :
         damage_records[n].country = OCEAN =>
           \E k \in DOMAIN threats :
             Hits(k) = {} /\ damage_records[n] = OceanRecordOf(threats[k])
C1_Witness ==
  /\ pc = "done"
  /\ \E k \in DOMAIN threats : Hits(k) = {}
  /\ \E k \in DOMAIN threats : Hits(k) # {}

\* C2: the assessment table of the run equals the table obtained from every
\* permutation of the loaded threat list.
C2_AggregationCommutative ==
  pc = "done" =>
    \A p \in Perms(Len(threats_raw)) :
      CountrySummary(DamageRecordsOf(
        [k \in 1..Len(threats_raw) |-> BufferOf(threats_raw[p[k]])], world))
      = country_summary
C2_Witness ==
  /\ pc = "done"
  /\ \E a, b \in DOMAIN damage_records :
       /\ a < b
       /\ damage_records[a].country = damage_records[b].country
       /\ severity_order(damage_records[a].severity)
            < severity_order(damage_records[b].severity)
  /\ \E a, b \in DOMAIN damage_records :
       /\ a < b
       /\ damage_records[a].country = damage_records[b].country
       /\ damage_records[a].threat_id # damage_records[b].threat_id
       /\ StrRank(damage_records[a].threat_id)
            > StrRank(damage_records[b].threat_id)

\* C3: each country of the damage records has one assessment row, holding
\* exactly the ids and the types of the threats whose damage zone intersects
\* the country, each once, and the label of highest rank among them under
\* Critical > Severe > High > Moderate.
RankedLabels == <<"Moderate", "High", "Severe", "Critical">>
LabelRank(l) == CHOOSE r \in DOMAIN RankedLabels : RankedLabels[r] = l
ThreatsHitting(c) ==
  {k \in DOMAIN threats :
     \E j \in Hits(k) : world[j].COUNTRY = c}
C3_AssessmentRows ==
  pc = "done" =>
    \A c \in {damage_records[n].country : n \in DOMAIN damage_records} \ {OCEAN} :
      LET rows == {n \in DOMAIN country_summary : country_summary[n].Country = c}
          ks == ThreatsHitting(c)
          labels == {THREAT_STYLES[threats[k].type].severity : k \in ks}
      IN /\ Cardinality(rows) = 1
         /\ \A n \in rows :
              LET row == country_summary[n]
              IN /\ Range(row.ThreatIDs) = {threats[k].id : k \in ks}
                 /\ NoDup(row.ThreatIDs)
                 /\ Range(row.ThreatTypes) = {threats[k].type : k \in ks}
                 /\ NoDup(row.ThreatTypes)
                 /\ row.WorstSeverity \in labels
                 /\ \A l \in labels : LabelRank(l) <= LabelRank(row.WorstSeverity)
C3_Witness ==
  /\ pc = "done"
  /\ \E n \in DOMAIN country_summary :
       /\ country_summary[n].Country # OCEAN
       /\ Len(country_summary[n].ThreatTypes) >= 2
       /\ Cardinality(ThreatsHitting(country_summary[n].Country)) >= 2
       /\ \E k \in ThreatsHitting(country_summary[n].Country) :
            THREAT_STYLES[threats[k].type].severity
              # country_summary[n].WorstSeverity
  /\ \E n \in DOMAIN country_summary :
       Cardinality(ThreatsHitting(country_summary[n].Country)) = 1

\* C4: no row of the assessment table is the ocean sentinel, and the table
\* has one row per country of the damage records.
C4_NoOceanRow ==
  pc \in {"m5_map", "report", "done"} =>
    /\ \A n \in DOMAIN country_summary : country_summary[n].Country # OCEAN
    /\ Len(country_summary)
         = Cardinality({damage_records[n].country : n \in DOMAIN damage_records}
                       \ {OCEAN})

\* C5: the stored intersection result holds each name at most once and is the
\* same value for every order of the dataset rows.
C5_IntersectedIsSet ==
  \A k \in DOMAIN threats :
    Has(threats[k], "intersected_countries") =>
      /\ NoDup(threats[k].intersected_countries)
      /\ \A p \in Perms(Len(world)) :
           IntersectingNames(Permuted(world, p), threats[k].trajectory_line)
             = threats[k].intersected_countries

\* C6: the flag is set exactly when the least distance of the samples to the
\* base is within the threshold, and the stored minimum is that least
\* distance (to two decimals), for every threat with samples.
SampleDists(t) ==
  {haversine_km(t.trajectory_pts[n], BASE_LAT) : n \in DOMAIN t.trajectory_pts}
BruteMin(t) == CHOOSE d \in SampleDists(t) : \A e \in SampleDists(t) : d <= e
C6_ProximityBruteForce ==
  \A k \in DOMAIN threats :
    (Has(threats[k], "passes_near_base") /\ threats[k].trajectory_pts # <<>>) =>
      /\ threats[k].passes_near_base
           = (BruteMin(threats[k]) <= BASE_PROXIMITY_KM * UnitsPerKm)
      /\ threats[k].min_dist_to_base_km = Fin(Round2(BruteMin(threats[k])))
C6_Witness ==
  /\ pc = "m5_endpoints"
  /\ \E k \in DOMAIN threats :
       /\ threats[k].passes_near_base
       /\ BruteMin(threats[k]) = haversine_km(threats[k].trajectory_pts[1], BASE_LAT)
  /\ \E k \in DOMAIN threats :
       /\ ~threats[k].passes_near_base
       /\ BruteMin(threats[k]) = haversine_km(Last(threats[k].trajectory_pts), BASE_LAT)

\* C7: when the damage-zone computation of one threat fails, every other
\* threat still has its damage_zone_countries and its damage records.
C7_FailureIsolated ==
  (pc = "crashed" /\ error = "KeyError: threat type") =>
    \A k \in DOMAIN threats :
      threats[k].type \in DOMAIN THREAT_STYLES =>
        /\ Has(threats[k], "damage_zone_countries")
        /\ \E n \in DOMAIN damage_records :
             damage_records[n].threat_id = threats[k].id

\* C8: no run has one style lookup accept a type the table lacks with a
\* fallback and another fail on it.
C8_UnknownTypeOnePolicy ==
  \A a, b \in styleLookups :
    (a.type = b.type /\ a.type \notin DOMAIN THREAT_STYLES) =>
      ~(a.outcome = "fallback" /\ b.outcome = "KeyError")

\* C9: the output of a run over a non-empty dataset that every path and
\* every buffer misses differs from the output of the same threats over the
\* empty dataset.
RunOutput ==
  [intersected |-> [k \in DOMAIN threats |-> threats[k].intersected_countries],
   all_intersected |-> all_intersected_countries,
   damage |-> damage_records,
   summary |-> country_summary]
OutputOver(raws, w) ==
  LET ts == [k \in DOMAIN raws |-> WithLine(WithTrajectory(NewThreat(raws[k])))]
      names == [k \in DOMAIN raws |-> IntersectingNames(w, ts[k].trajectory_line)]
      recs == DamageRecordsOf([k \in DOMAIN raws |-> BufferOf(raws[k])], w)
  IN [intersected |-> names,
      all_intersected |-> UNION {Range(names[k]) : k \in DOMAIN raws},
      damage |-> recs,
      summary |-> CountrySummary(recs)]
EveryGeometryMisses ==
  /\ \A k \in DOMAIN threats : threats[k].intersected_countries = <<>>
  /\ \A k \in DOMAIN threats : Hits(k) = {}
C9_EmptyDatasetDistinguishable ==
  (pc = "done" /\ world # <<>> /\ EveryGeometryMisses) =>
    RunOutput # OutputOver(threats_raw, <<>>)

\* C10: the stored destination is the last trajectory sample, and a threat of
\* duration 0 has total distance 0 and its origin as destination.
C10_DestIsTrajectoryEnd ==
  \A k \in DOMAIN threats :
    Has(threats[k], "dest_lat") =>
      /\ threats[k].dest_lat = Last(threats[k].trajectory_pts)
      /\ threats[k].duration_min = 0 =>
           /\ threats[k].total_distance_km = 0
           /\ threats[k].dest_lat = threats[k].origin_lat

\* C11: a step of the line-intersection loop changes, in the threat list,
\* only the key intersected_countries of the threat it handles; a step of the
\* proximity loop only min_dist_to_base_km and passes_near_base of its
\* threat; both leave the dataset as it is; and the records the two loops
\* leave behind are those of running proximity first and intersection second.
OnlyKeysWritten(old, new, idx, keys) ==
  /\ Len(new) = Len(old)
  /\ \A k \in DOMAIN old :
       IF k # idx THEN new[k] = old[k]
       ELSE /\ new[k].has = old[k].has \cup keys
            /\ \A f \in DOMAIN old[k] \ (keys \cup {"has"}) :
                 new[k][f] = old[k][f]
AfterTrajectory(raw) == WithLine(WithTrajectory(NewThreat(raw)))
C11_Step ==
  /\ (pc = "m4_intersect" /\ i' = i + 1) =>
       /\ OnlyKeysWritten(threats, threats', i, {"intersected_countries"})
       /\ world' = world
  /\ (pc = "m4_proximity" /\ i' = i + 1) =>
       /\ OnlyKeysWritten(threats, threats', i,
                          {"min_dist_to_base_km", "passes_near_base"})
       /\ world' = world
  /\ (pc = "m4_proximity" /\ pc' = "m5_endpoints") =>
       \A k \in DOMAIN threats' :
         threats'[k]
           = WithIntersected(WithProximity(AfterTrajectory(threats_raw[k])), world)
C11_AnalysesIndependent == [][C11_Step]_vars
C11_Witness ==
  /\ pc = "m5_endpoints"
  /\ \E k \in DOMAIN threats :
       /\ threats[k].intersected_countries # <<>>
       /\ threats[k].passes_near_base
  /\ \E k \in DOMAIN threats :
       /\ threats[k].intersected_countries = <<>>
       /\ ~threats[k].passes_near_base

\* C12: a run over threats of known types, the empty list included, over any
\* dataset, the empty one included, never ends in a fatal error.
AllTypesKnown ==
  \A k \in DOMAIN threats_raw : threats_raw[k].type \in DOMAIN THREAT_STYLES
C12_NoFatalError == AllTypesKnown => pc # "crashed"

\* C13 as stated: the flag is true exactly when the stored (rounded) minimum
\* is within the threshold.
Threshold == BASE_PROXIMITY_KM * UnitsPerKm
StoredWithin(t) ==
  ~t.min_dist_to_base_km.inf /\ t.min_dist_to_base_km.d <= Threshold
C13_FlagAgreesWithStored ==
  \A k \in DOMAIN threats :
    Has(threats[k], "passes_near_base") =>
      (threats[k].passes_near_base <=> StoredWithin(threats[k]))

\* C13 as amended: a set flag implies a stored minimum within the threshold,
\* and a stored minimum strictly below the threshold implies the flag; the
\* two can differ only when the stored minimum is exactly the threshold.
C13_FlagAgreesOffThreshold ==
  \A k \in DOMAIN threats :
    Has(threats[k], "passes_near_base") =>
      /\ threats[k].passes_near_base => StoredWithin(threats[k])
      /\ (~threats[k].min_dist_to_base_km.inf
          /\ threats[k].min_dist_to_base_km.d < Threshold)
           => threats[k].passes_near_base
C13_Witness ==
  \E k \in DOMAIN threats :
    /\ Has(threats[k], "passes_near_base")
    /\ ~threats[k].passes_near_base
    /\ threats[k].min_dist_to_base_km = Fin(Threshold)
    /\ MinDist(threats[k].trajectory_pts).d > Threshold

\* C14: after the damage-zone stage every threat record has
\* damage_zone_countries, and it lists the countries intersecting the buffer
\* built from that threat's own endpoint and type.
OwnZoneCountries(t) ==
  IntersectingNames(world,
                    BufferGeom(t.dest_lat, THREAT_STYLES[t.type].buffer_km))
C14_EveryThreatHasOwnZone ==
  DamageDone =>
    \A k \in DOMAIN threats :
      /\ Has(threats[k], "damage_zone_countries")
      /\ threats[k].damage_zone_countries = OwnZoneCountries(threats[k])
====
